---- MODULE Spec2Model ----
(***************************************************************************)
(* A model of the Postgres CDC source connector                           *)
(* (rust-connectors/sources/postgres/src/connect.rs): PgConnector::new,   *)
(* PgConnector::process_stream and PgConnector::process_event, together   *)
(* with the two parties they talk to: the upstream walsender that streams *)
(* the decoded WAL and the downstream topic the events are produced to.   *)
(***************************************************************************)
EXTENDS Integers, Sequences, FiniteSets, TLC

(***************************************************************************)
(* Bounds of the model.                                                    *)
(***************************************************************************)
\* Spec: restarts and resume.
MaxWal == 2
MaxSessions == 2
MaxFaults == 1
\* SpecSession: one session, longer streams.
SessionWal == 3
SessionRuns == 1
SessionFaults == 1
\* SpecSmart: a transform is configured.
SmartWal == 1
SmartRuns == 1
SmartFaults == 1
MaxBatches == 2
\* SpecResume: restarts with a transform configured.
ResumeWal == 1
ResumeRuns == 2
ResumeFaults == 0
\* SpecClock: keepalives at different times: up to MaxElapsed seconds after
\* 2000-01-01T00:00:00Z.
ClockWal == 1
ClockRuns == 1
ClockFaults == 1
MaxElapsed == 2146
\* SpecEmit: one session with a transform, failures while it emits.
EmitWal == 2
EmitRuns == 1
EmitFaults == 1

(***************************************************************************)
(* Program constants.                                                      *)
(***************************************************************************)
TIME_SEC_CONVERSION == 946684800
BATCH_SIZE == 100

VARIABLES
    limits,          \* the bounds of this run: [wal, sessions, faults, clock]
    config,          \* PgConnectorOpt: [slot, publication, topic, smartmodule]
    topics,          \* the topics that exist downstream
    topic,           \* the records of partition 0 of config.topic, oldest first
    wal,             \* upstream: the decoded change messages, in WAL order
    confirmed_flush, \* upstream: the slot's confirmed_flush_lsn
    start_point,     \* upstream: where the walsender of this session started decoding
    sid,             \* number of connector processes started so far
    phase,           \* "Init" | "Ready" | "Streaming" | "Terminated" | "Failed"
    result,          \* what new()/process_stream() returned: "none" | "ok" | "err"
    error,           \* the error returned or logged last ("none" if the last step succeeded)
    opened,          \* new(): the handles it created before it returned
    last_record,     \* new(): the record the tail read returned (Option)
    lsn,             \* PgConnector.lsn : Option<PgLsn>
    relations,       \* PgConnector.relations : BTreeMap<u32, Vec<Column>>
    smartstream,     \* PgConnector.smartstream : Option<Box<dyn SmartStream>>
    last_lsn,        \* process_stream's local watermark
    query,           \* the START_REPLICATION command sent on pg_client (Option)
    cursor,          \* WAL position of the last message try_next() returned
    frame,           \* the frame try_next() returned last: [kind, pos, reply]
    emitted,         \* the writes process_event issued for that frame, in order
    performed,       \* the operations process_event completed for that frame, in order
    status_updates,  \* the standby status updates it sent for that frame
                     \* (error tells whether the send failed)
    history,         \* this session's handled XLogData frames, in order:
                     \* [pos, err, event, sent (writes that returned Ok), last_lsn]
    topic_base,      \* Len(topic) when this session was created
    received,        \* WAL positions some session has received
    written,         \* WAL positions for which some session produced a record
    dropped,         \* WAL positions whose handling failed in some session
    faults,          \* number of injected failures so far
    now              \* the wall clock read while that frame was handled
                     \* (Unix seconds; 0: not read)

vars == <<limits, config, topics, topic, wal, confirmed_flush, start_point, sid,
          phase, result, error, opened, last_record, lsn, relations,
          smartstream, last_lsn, query, cursor, frame, emitted, performed,
          status_updates, history, topic_base, received, written, dropped,
          faults, now>>

(***************************************************************************)
(* Option and Result.                                                      *)
(***************************************************************************)
None == [tag |-> "None"]
Some(v) == [tag |-> "Some", val |-> v]
Ok(v) == [ok |-> TRUE, val |-> v]
Err(e) == [ok |-> FALSE, err |-> e]
unwrap_or(o, d) == IF o.tag = "Some" THEN o.val ELSE d

Min(a, b) == IF a < b THEN a ELSE b
Max(a, b) == IF a > b THEN a ELSE b

(***************************************************************************)
(* The upstream: wire messages.                                            *)
(***************************************************************************)
RelIds == {7, 8}
DataKinds == {"Insert", "Update", "Delete"}

Payload(k, r, m) == [kind |-> k, rel_id |-> r, malformed |-> m]

\* The messages of a transaction between its Begin and its Commit.
Changes ==
    {Payload("Relation", r, FALSE) : r \in RelIds}
    \cup {Payload("Insert", 7, FALSE), Payload("Update", 8, FALSE),
          Payload("Delete", 7, TRUE), Payload("Truncate", 0, FALSE)}

\* The logical replication messages the walsender may send after w: the
\* decoded WAL is a sequence of transactions, each a Begin, its changes and
\* a Commit.
WireMessages(w) ==
    IF w = <<>> \/ w[Len(w)].kind = "Commit"
    THEN {Payload("Begin", 0, FALSE)}
    ELSE Changes \cup {Payload("Commit", 0, FALSE)}

\* LSN of the WAL record behind the message at position p.
LsnAt(p) == 10 * p
\* A Commit message carries the LSN of the commit record and of its end.
CommitLsn(p) == LsnAt(p)
EndLsn(p) == LsnAt(p) + 5
\* The walsender writes a Commit at the end of the commit record and every
\* other message at the LSN of its change.
WriteLocation(p) == IF wal[p].kind = "Commit" THEN EndLsn(p) ELSE LsnAt(p)

\* The XLogData frame for WAL position p. A Relation message carries the
\* table's column list; each Relation message is a fresh schema version.
XLogData(p) ==
    [wal_start |-> WriteLocation(p),
     wal_end |-> WriteLocation(p),
     timestamp |-> p,
     data |-> [kind |-> wal[p].kind,
               rel_id |-> wal[p].rel_id,
               malformed |-> wal[p].malformed,
               columns |-> IF wal[p].kind = "Relation" THEN <<p>> ELSE <<>>,
               commit_lsn |-> IF wal[p].kind = "Commit" THEN CommitLsn(p) ELSE 0,
               end_lsn |-> IF wal[p].kind = "Commit" THEN EndLsn(p) ELSE 0]]

\* Position of the Commit that ends the transaction holding position p
\* (0 while that transaction's Commit has not been decoded yet).
CommitPosOf(p) ==
    LET cs == {c \in p..Len(wal) : wal[c].kind = "Commit"}
    IN IF cs = {} THEN 0 ELSE CHOOSE c \in cs : \A d \in cs : c <= d

\* A walsender that started decoding at s sends a transaction, whole, when
\* its commit record is not before s.
Included(p, s) == CommitPosOf(p) = 0 \/ CommitLsn(CommitPosOf(p)) >= s

\* The position try_next() returns next (0: nothing to receive yet).
NextPos ==
    LET ps == {p \in (cursor + 1)..Len(wal) : Included(p, start_point)}
    IN IF ps = {} THEN 0 ELSE CHOOSE p \in ps : \A q \in ps : p <= q

(***************************************************************************)
(* The connector's data: LSNs, events, their JSON encoding, the transform. *)
(***************************************************************************)
\* PgLsn::from(u64)
PgLsn(n) == n

EventKeys == {"wal_start", "wal_end", "timestamp", "message"}
Variants == {"Begin", "Commit", "Relation", "Insert", "Update", "Delete", "Truncate"}

\* convert_replication_event(&self.relations, &xlog_data): a data message is
\* paired with the cached columns of its relation; an unknown relation id or
\* an undecodable tuple is an error.
convert_replication_event(rels, x) ==
    LET d == x.data
    IN IF d.malformed \/ (d.kind \in DataKinds /\ d.rel_id \notin DOMAIN rels)
       THEN Err("ConversionError")
       ELSE Ok([wal_start |-> x.wal_start,
                wal_end |-> x.wal_end,
                timestamp |-> x.timestamp,
                message |-> [tag |-> d.kind,
                             rel_id |-> d.rel_id,
                             columns |-> IF d.kind \in DataKinds
                                         THEN rels[d.rel_id] ELSE d.columns,
                             commit_lsn |-> d.commit_lsn,
                             end_lsn |-> d.end_lsn]])

\* serde_json::to_string(&event): an object of the event's fields, the
\* message an object keyed by its variant's tag.
to_string(event) ==
    [k \in EventKeys |->
        CASE k = "wal_start" -> event.wal_start
          [] k = "wal_end" -> event.wal_end
          [] k = "timestamp" -> event.timestamp
          [] OTHER -> <<event.message.tag,
                        [rel_id |-> event.message.rel_id,
                         columns |-> event.message.columns,
                         commit_lsn |-> event.message.commit_lsn,
                         end_lsn |-> event.message.end_lsn]>>]

\* serde_json::from_slice::<ReplicationEvent>(bytes)
from_slice(bytes) ==
    IF DOMAIN bytes = EventKeys /\ bytes["message"][1] \in Variants
    THEN Ok([wal_start |-> bytes["wal_start"],
             wal_end |-> bytes["wal_end"],
             timestamp |-> bytes["timestamp"],
             message |-> [tag |-> bytes["message"][1],
                          rel_id |-> bytes["message"][2].rel_id,
                          columns |-> bytes["message"][2].columns,
                          commit_lsn |-> bytes["message"][2].commit_lsn,
                          end_lsn |-> bytes["message"][2].end_lsn]])
    ELSE Err("ResumeDecodeError")

\* smartstream.process(input): output.successes. A transform yields n records
\* per input: the input's bytes as they are, or rewritten (here to the k-th
\* part of the event at that LSN).
process(ss, json) ==
    [k \in 1..ss.n |->
        IF ss.rewrite THEN [part |-> k, of |-> json["wal_end"]] ELSE json]

\* A variant that drops a final short chunk (chunks_exact).
RECURSIVE chunks_exact(_, _)
chunks_exact(s, n) ==
    IF Len(s) < n THEN <<>>
    ELSE <<SubSeq(s, 1, n)>> \o chunks_exact(SubSeq(s, n + 1, Len(s)), n)

\* output.successes.chunks(100)
RECURSIVE chunks(_, _)
chunks(s, n) ==
    IF s = <<>> THEN <<>>
    ELSE <<SubSeq(s, 1, Min(n, Len(s)))>>
         \o chunks(SubSeq(s, Min(n, Len(s)) + 1, Len(s)), n)

\* (fluvio::RecordKey::NULL, record.value.as_ref())
null_key(value) == [key |-> "NULL", value |-> value]

\* The writes the emitter issues for one event, in order.
batches(ss, json) ==
    LET cs == chunks(process(ss, json), BATCH_SIZE)
    IN [i \in 1..Len(cs) |->
          [op |-> "send_all",
           records |-> [j \in 1..Len(cs[i]) |-> null_key(cs[i][j])]]]

\* A variant that sends the record twice.
single_twice(json) ==
    <<[op |-> "send", records |-> <<null_key(json)>>],
      [op |-> "send", records |-> <<null_key(json)>>]>>

\* A variant that sends the event's debug text instead of its JSON.
single_text(json) ==
    <<[op |-> "send", records |-> <<null_key(<<"ReplicationEvent", json>>)>>]>>

\* A variant that sends the record as a batch of one.
single_batch(json) == <<[op |-> "send_all", records |-> <<null_key(json)>>]>>

\* self.producer.send(fluvio::RecordKey::NULL, json)
single(json) == <<[op |-> "send", records |-> <<null_key(json)>>]>>

writes_for(ss, json) ==
    IF ss.tag = "Some" THEN batches(ss.val, json) ELSE single(json)

\* The records a sequence of writes appends to the topic.
RECURSIVE flatten(_)
flatten(ws) ==
    IF ws = <<>> THEN <<>> ELSE ws[1].records \o flatten(Tail(ws))

\* A variant that keeps the columns a relation was first registered with.
insert_if_absent(rels, id, cols) ==
    [r \in DOMAIN rels \cup {id} |-> IF r \in DOMAIN rels THEN rels[r] ELSE cols]

\* self.relations.insert(rel.rel_id, rel.columns)
insert(rels, id, cols) ==
    [r \in DOMAIN rels \cup {id} |-> IF r = id THEN cols ELSE rels[r]]

\* A variant that never registers a relation.
relations_kept(rels, event) == rels

\* match event.message { Relation => ..., Commit => ..., _ => {} }
relations_after(rels, event) ==
    IF event.message.tag = "Relation"
    THEN insert(rels, event.message.rel_id, event.message.columns) ELSE rels

\* A variant that acknowledges the last LSN seen.
last_lsn_seen(l, event) == PgLsn(event.wal_end)

\* A variant whose default arm clears the watermark.
last_lsn_reset(l, event) ==
    IF event.message.tag = "Commit" THEN PgLsn(event.message.commit_lsn)
    ELSE PgLsn(0)

last_lsn_after(l, event) ==
    IF event.message.tag = "Commit" THEN PgLsn(event.message.commit_lsn) ELSE l

Step(op) == [op |-> op, records |-> <<>>]

\* A variant that updates the session state before it emits the event.
operations_eager(ss, ws) ==
    <<Step("match")>>
    \o (IF ss.tag = "Some" THEN <<Step("process")>> ELSE <<>>) \o ws

\* What process_event does with a converted and encoded event, in program
\* order: the transform (if configured), the writes, then match event.message.
operations(ss, ws) ==
    (IF ss.tag = "Some" THEN <<Step("process")>> ELSE <<>>)
    \o ws \o <<Step("match")>>

is_write(o) == o.op \in {"send", "send_all"}

\* Whether operation o is one the fault makes fail.
fails(o, fault) ==
    \/ fault = "transform" /\ o.op = "process"
    \/ fault = "send" /\ is_write(o)

\* A variant that logs the failing operation and goes on with the next.
RECURSIVE completed_past(_, _, _)
completed_past(ops, fault, k) ==
    IF ops = <<>> THEN <<>>
    ELSE IF fails(ops[1], fault)
         THEN IF k <= 1 THEN completed_past(Tail(ops), "none", 0)
              ELSE <<ops[1]>> \o completed_past(Tail(ops), fault, k - 1)
         ELSE <<ops[1]>> \o completed_past(Tail(ops), fault, k)

\* The ? operators: the operations completed before the k-th failing one
\* returns its error (all of them when none fails).
completed(ops, fault, k) ==
    LET failing == {i \in DOMAIN ops : fails(ops[i], fault)}
        stop == {i \in failing :
                    Cardinality({j \in failing : j <= i}) = Max(k, 1)}
    IN IF stop = {} THEN ops
       ELSE SubSeq(ops, 1, (CHOOSE i \in stop : TRUE) - 1)

\* A variant that updates the session state whatever the emission returned.
reached_always(done) == TRUE

\* Whether process_event got to match event.message.
reached_match(done) == \E i \in DOMAIN done : done[i].op = "match"

\* process_event on an XLogData frame. fault names what fails while the
\* event is emitted ("none", "transform", or "send" for the k-th write).
\* Returns the error (or "none"), the operations completed, the writes that
\* reached the topic and the session state afterwards.
process_event(x, fault, k) ==
    LET conv == convert_replication_event(relations, x)
    IN IF ~conv.ok
       THEN [err |-> conv.err, event |-> None, done |-> <<>>, writes |-> <<>>,
             relations |-> relations, last_lsn |-> last_lsn]
       ELSE LET event == conv.val
                json == to_string(event)
                ops == operations(smartstream, writes_for(smartstream, json))
                done == completed(ops, fault, k)
                matched == reached_match(done)
            IN [err |-> CASE fault = "transform" -> "TransformError"
                          [] fault = "send" -> "SendError"
                          [] OTHER -> "none",
                event |-> Some(event),
                done |-> [i \in DOMAIN done |-> done[i].op],
                writes |-> SelectSeq(done, is_write),
                relations |-> IF matched THEN relations_after(relations, event)
                              ELSE relations,
                last_lsn |-> IF matched THEN last_lsn_after(last_lsn, event)
                             ELSE last_lsn]

\* What may fail while the next frame is handled, within the run's budget.
FaultChoices(x) ==
    LET conv == convert_replication_event(relations, x)
        n == IF conv.ok
             THEN Len(writes_for(smartstream, to_string(conv.val))) ELSE 0
    IN {<<"none", 0>>}
       \cup (IF faults < limits.faults /\ conv.ok
             THEN {<<"send", k>> : k \in 1..n}
                  \cup (IF smartstream.tag = "Some"
                        THEN {<<"transform", 0>>} ELSE {})
             ELSE {})

(***************************************************************************)
(* The configuration and the initial state.                                *)
(***************************************************************************)
\* The numbers of outputs a transform is tried with: those around a multiple
\* of the batch size.
Outputs ==
    {n \in 0..(BATCH_SIZE * MaxBatches + 1) :
        n % BATCH_SIZE \in {0, 1, BATCH_SIZE - 1}}
\* The transforms: one that passes each record on, and those that rewrite it
\* into n records.
Transforms ==
    {[n |-> 1, rewrite |-> FALSE]} \cup {[n |-> n, rewrite |-> TRUE] : n \in Outputs}
NoFrame == [kind |-> "None", pos |-> 0, reply |-> 0]

PgConnectorOpt(sm) ==
    [slot |-> "fluvio", publication |-> "fluvio_cdc", topic |-> "pg-cdc",
     smartmodule |-> sm]

InitWith(lim, smartmodules, topicsets) ==
    /\ limits = lim
    /\ config \in {PgConnectorOpt(sm) : sm \in smartmodules}
    /\ topics \in topicsets
    /\ topic = <<>>
    /\ wal = <<>>
    /\ confirmed_flush = 0
    /\ start_point = 0
    /\ sid = 0
    /\ phase = "Init"
    /\ result = "none"
    /\ error = "none"
    /\ opened = {}
    /\ last_record = None
    /\ lsn = None
    /\ relations = <<>>
    /\ smartstream = None
    /\ last_lsn = 0
    /\ query = None
    /\ cursor = 0
    /\ frame = NoFrame
    /\ emitted = <<>>
    /\ performed = <<>>
    /\ status_updates = <<>>
    /\ history = <<>>
    /\ topic_base = 0
    /\ received = {}
    /\ written = {}
    /\ dropped = {}
    /\ faults = 0
    /\ now = 0

Init ==
    InitWith([wal |-> MaxWal, sessions |-> MaxSessions, faults |-> MaxFaults,
              clock |-> {1}],
             {None}, {{}, {"pg-cdc"}})

\* The same connector with a transform configured.
InitSmart ==
    InitWith([wal |-> SmartWal, sessions |-> SmartRuns, faults |-> SmartFaults,
              clock |-> {1}],
             {Some(t) : t \in Transforms}, {{"pg-cdc"}})

\* The transforms of SpecResume: one that passes each record on, one that
\* drops it, one that rewrites it into two.
ResumeTransforms ==
    {[n |-> 1, rewrite |-> FALSE], [n |-> 0, rewrite |-> TRUE],
     [n |-> 2, rewrite |-> TRUE]}

\* The transform of SpecEmit rewrites each record into more records than a
\* batch holds.
EmitTransforms == {[n |-> BATCH_SIZE + 1, rewrite |-> TRUE]}

\* The same connector with a transform configured, one session.
InitEmit ==
    InitWith([wal |-> EmitWal, sessions |-> EmitRuns, faults |-> EmitFaults,
              clock |-> {1}],
             {Some(t) : t \in EmitTransforms}, {{"pg-cdc"}})

\* The same connector with a transform configured, restarted.
InitResume ==
    InitWith([wal |-> ResumeWal, sessions |-> ResumeRuns,
              faults |-> ResumeFaults, clock |-> {1}],
             {Some(t) : t \in ResumeTransforms}, {{"pg-cdc"}})

\* The same connector, its keepalives at different times.
InitClock ==
    InitWith([wal |-> ClockWal, sessions |-> ClockRuns, faults |-> ClockFaults,
              clock |-> {0, 1, 59, 60, MaxElapsed}],
             {None}, {{"pg-cdc"}})

\* The same connector over longer streams.
InitSession ==
    InitWith([wal |-> SessionWal, sessions |-> SessionRuns,
              faults |-> SessionFaults, clock |-> {1}],
             {None}, {{"pg-cdc"}})

(***************************************************************************)
(* PgConnector::new                                                        *)
(***************************************************************************)
\* consumer.stream(Offset::from_end(1)) under the resume timeout: the last
\* record of the topic, or nothing when the topic is empty or the read is slow.
tail_read(timeout) ==
    IF topic = <<>> \/ timeout THEN None ELSE Some(topic[Len(topic)])

\* A variant that resumes past the tail record instead of at it.
resume_lsn_past(record) ==
    IF record.tag = "Some"
    THEN LET event == from_slice(record.val.value)
         IN IF event.ok THEN Ok(Some(PgLsn(event.val.wal_end + 16))) ELSE event
    ELSE Ok(None)

\* A variant that takes the absence of a record for an error.
resume_lsn_strict(record) ==
    IF record.tag = "Some"
    THEN LET event == from_slice(record.val.value)
         IN IF event.ok THEN Ok(Some(PgLsn(event.val.wal_end))) ELSE event
    ELSE Err("NoRecord")

\* A variant that starts from the beginning when the tail does not decode.
resume_lsn_lenient(record) ==
    IF record.tag = "Some"
    THEN LET event == from_slice(record.val.value)
         IN IF event.ok THEN Ok(Some(PgLsn(event.val.wal_end))) ELSE Ok(None)
    ELSE Ok(None)

\* if let Some(record) = last_record { ... lsn = Some(PgLsn::from(event.wal_end)) }
resume_lsn(record) ==
    IF record.tag = "Some"
    THEN LET event == from_slice(record.val.value)
         IN IF event.ok THEN Ok(Some(PgLsn(event.val.wal_end))) ELSE event
    ELSE Ok(None)

\* A variant that creates the producer before it checks the topic.
handles_eager(exists, decoded) ==
    {"admin", "producer"}
    \cup (IF exists THEN {"consumer", "tail_read"} ELSE {})
    \cup (IF exists /\ decoded THEN {"pg_client"} ELSE {})

\* What new() has created when it returns: the admin client, then (the topic
\* exists) the consumer and its tail stream, then (the tail decodes, or there
\* is none) the producer and the replication connection.
handles(exists, decoded) ==
    {"admin"}
    \cup (IF exists THEN {"consumer", "tail_read"} ELSE {})
    \cup (IF exists /\ decoded THEN {"producer", "pg_client"} ELSE {})

\* A connector process starts (the one before it, if any, is gone).
New ==
    /\ sid < limits.sessions
    /\ sid' = sid + 1
    /\ \E timeout \in BOOLEAN :
         LET exists == config.topic \in topics
             record == IF exists THEN tail_read(timeout) ELSE None
             found == resume_lsn(record)
         IN /\ last_record' = record
            /\ lsn' = IF exists /\ found.ok THEN found.val ELSE None
            /\ phase' = IF exists /\ found.ok THEN "Ready" ELSE "Failed"
            /\ result' = IF exists /\ found.ok THEN "none" ELSE "err"
            /\ error' = IF ~exists THEN "TopicNotFound"
                         ELSE IF ~found.ok THEN found.err ELSE "none"
            /\ opened' = handles(exists, found.ok)
    /\ relations' = <<>>
    /\ smartstream' = config.smartmodule
    /\ last_lsn' = 0
    /\ query' = None
    /\ cursor' = 0
    /\ start_point' = 0
    /\ frame' = NoFrame
    /\ emitted' = <<>>
    /\ performed' = <<>>
    /\ status_updates' = <<>>
    /\ history' = <<>>
    /\ topic_base' = Len(topic)
    /\ now' = 0
    /\ UNCHANGED <<limits, config, topics, topic, wal, confirmed_flush,
                   received, written, dropped, faults>>

(***************************************************************************)
(* PgConnector::process_stream                                             *)
(***************************************************************************)
\* START_REPLICATION SLOT "{slot}" LOGICAL {last_lsn} ("proto_version" '1',
\* "publication_names" '{publication}')
start_replication(slot, publication, l) ==
    [command |-> "START_REPLICATION", slot |-> slot, lsn |-> l,
     proto_version |-> "1", publication_names |-> publication]

\* A variant that resumes after the discovered LSN instead of at it.
first_lsn_next(l) == IF l.tag = "Some" THEN l.val + 1 ELSE PgLsn(0)

\* let mut last_lsn = self.lsn.unwrap_or_else(|| PgLsn::from(0))
first_lsn(l) == unwrap_or(l, PgLsn(0))

\* The connector sends the command; the server starts streaming or rejects it.
StartReplication ==
    /\ phase = "Ready"
    /\ last_lsn' = first_lsn(lsn)
    /\ query' = Some(start_replication(config.slot, config.publication, last_lsn'))
    /\ \E rejected \in (IF faults < limits.faults THEN BOOLEAN ELSE {FALSE}) :
         /\ phase' = IF rejected THEN "Terminated" ELSE "Streaming"
         /\ result' = IF rejected THEN "err" ELSE "none"
         /\ error' = IF rejected THEN "PostgresReplication" ELSE "none"
         /\ faults' = IF rejected THEN faults + 1 ELSE faults
    /\ start_point' = Max(last_lsn', confirmed_flush)
    /\ UNCHANGED <<limits, config, topics, topic, wal, confirmed_flush, sid,
                   opened, last_record, lsn, relations, smartstream, cursor,
                   frame, emitted, performed, status_updates, history,
                   topic_base, received, written, dropped, now>>

\* A variant that returns the handler's error from the loop.
after_event_try(err) == IF err = "none" THEN "Streaming" ELSE "Terminated"

\* if let Err(e) = result { tracing::error!(...) }: the loop goes on.
after_event(err) == "Streaming"

\* stream.try_next() returned an XLogData frame; process_event handles it.
ReceiveXLogData ==
    /\ phase = "Streaming"
    /\ NextPos # 0
    /\ \E f \in FaultChoices(XLogData(NextPos)) :
         \E out \in {process_event(XLogData(NextPos), f[1], f[2])} :
            /\ topic' = topic \o flatten(out.writes)
            /\ relations' = out.relations
            /\ last_lsn' = out.last_lsn
            /\ emitted' = out.writes
            /\ performed' = out.done
            /\ error' = out.err
            /\ history' = Append(history,
                   [pos |-> NextPos, err |-> out.err, event |-> out.event,
                    sent |-> Len(out.writes), last_lsn |-> out.last_lsn])
            /\ written' = IF out.writes # <<>> THEN written \cup {NextPos}
                          ELSE written
            /\ dropped' = IF out.err # "none" THEN dropped \cup {NextPos}
                          ELSE dropped
            /\ faults' = IF f[1] # "none" THEN faults + 1 ELSE faults
            /\ phase' = after_event(out.err)
            /\ result' = IF phase' = "Streaming" THEN "none" ELSE "err"
    /\ cursor' = NextPos
    /\ frame' = [kind |-> "XLogData", pos |-> NextPos, reply |-> 0]
    /\ status_updates' = <<>>
    /\ received' = received \cup {NextPos}
    /\ now' = 0
    /\ UNCHANGED <<limits, config, topics, wal, confirmed_flush, start_point,
                   sid, opened, last_record, lsn, smartstream, query,
                   topic_base>>

\* SystemTime::now(), in whole seconds since the Unix epoch.
WallClock == {TIME_SEC_CONVERSION + k : k \in limits.clock}
\* EPOCH.elapsed(): the time since UNIX_EPOCH + TIME_SEC_CONVERSION seconds.
elapsed(t) == t - TIME_SEC_CONVERSION
\* A variant that takes the seconds for the microseconds.
as_secs(secs) == secs
\* Duration::as_micros() as i64
as_micros(secs) == secs * 1000000

\* standby_status_update(*last_lsn, *last_lsn, *last_lsn, ts, 0)
standby_status_update(l, ts) ==
    [write_lsn |-> l, flush_lsn |-> l, apply_lsn |-> l, ts |-> ts, reply |-> 0]

\* A variant that answers every keepalive.
reply_always(reply) == TRUE

\* if keepalive.reply() == 1
reply_requested(reply) == reply = 1

\* stream.try_next() returned a PrimaryKeepAlive frame; process_event
\* answers it when a reply is requested. The update may fail to be sent.
ReceiveKeepAlive ==
    /\ phase = "Streaming"
    /\ \E reply \in {0, 1}, t \in WallClock,
          failed \in (IF faults < limits.faults THEN BOOLEAN ELSE {FALSE}) :
         LET asked == reply_requested(reply)
             sent == asked /\ ~failed
             update == standby_status_update(last_lsn, as_micros(elapsed(t)))
         IN /\ (failed => asked)
            /\ now' = IF asked THEN t ELSE 0
            /\ frame' = [kind |-> "PrimaryKeepAlive", pos |-> 0, reply |-> reply]
            /\ status_updates' = IF asked THEN <<update>> ELSE <<>>
            /\ performed' = IF sent THEN <<"standby_status_update">> ELSE <<>>
            /\ error' = IF failed THEN "SendError" ELSE "none"
            /\ confirmed_flush' = IF sent THEN Max(confirmed_flush, update.flush_lsn)
                                  ELSE confirmed_flush
            /\ faults' = IF failed THEN faults + 1 ELSE faults
            /\ phase' = after_event(IF failed THEN "SendError" ELSE "none")
            /\ result' = IF phase' = "Streaming" THEN "none" ELSE "err"
    /\ emitted' = <<>>
    /\ UNCHANGED <<limits, config, topics, topic, wal, start_point, sid,
                   opened, last_record, lsn, relations, smartstream, last_lsn,
                   query, cursor, history, topic_base, received, written,
                   dropped>>

\* A variant that logs the stream's error and stays in the loop.
stream_logged == "Streaming"

\* stream.try_next().await? : the stream failed; process_stream returns Err.
stream_failed == "Terminated"

StreamError ==
    /\ phase = "Streaming"
    /\ phase' = stream_failed
    /\ result' = "err"
    /\ error' = "StreamError"
    /\ UNCHANGED <<limits, config, topics, topic, wal, confirmed_flush,
                   start_point, sid, opened, last_record, lsn, relations,
                   smartstream, last_lsn, query, cursor, frame, emitted,
                   performed, status_updates, history, topic_base, received,
                   written, dropped, faults, now>>

\* stream.try_next() returned None: the server, having sent what it had,
\* closed the stream; process_stream returns Ok(()).
StreamEnd ==
    /\ phase = "Streaming"
    /\ NextPos = 0
    /\ phase' = "Terminated"
    /\ result' = "ok"
    /\ error' = "none"
    /\ UNCHANGED <<limits, config, topics, topic, wal, confirmed_flush,
                   start_point, sid, opened, last_record, lsn,
                   relations, smartstream, last_lsn, query, cursor, frame,
                   emitted, performed, status_updates, history, topic_base,
                   received, written, dropped, faults, now>>

(***************************************************************************)
(* The upstream database commits changes; the walsender decodes them.      *)
(***************************************************************************)
Produce ==
    /\ phase = "Streaming"
    /\ NextPos = 0
    /\ Len(wal) < limits.wal
    /\ \E m \in WireMessages(wal) : wal' = Append(wal, m)
    /\ UNCHANGED <<limits, config, topics, topic, confirmed_flush, start_point,
                   sid, phase, result, error, opened, last_record, lsn,
                   relations, smartstream, last_lsn, query, cursor, frame,
                   emitted, performed, status_updates, history, topic_base,
                   received, written, dropped, faults, now>>

Next ==
    \/ New
    \/ StartReplication
    \/ ReceiveXLogData
    \/ ReceiveKeepAlive
    \/ StreamError
    \/ StreamEnd
    \/ Produce

Spec == Init /\ [][Next]_vars

SpecSession == InitSession /\ [][Next]_vars

SpecSmart == InitSmart /\ [][Next]_vars

SpecResume == InitResume /\ [][Next]_vars

SpecEmit == InitEmit /\ [][Next]_vars

SpecClock == InitClock /\ [][Next]_vars

(***************************************************************************)
(* Properties.                                                             *)
(***************************************************************************)
Kind(i) == wal[history[i].pos].kind
\* The watermark before the i-th handled frame of this session.
Before(i) == IF i = 1 THEN query.val.lsn ELSE history[i - 1].last_lsn
Commits == {p \in 1..Len(wal) : wal[p].kind = "Commit"}
TailEvent == from_slice(last_record.val.value)

\* C1: when the tail read of new() returned a record that decodes as an event
\* with wal_end L, the command process_stream sends is START_REPLICATION for
\* the configured slot and publication at exactly L.
C1_ResumeAtTailLsn ==
    (query.tag = "Some" /\ last_record.tag = "Some" /\ TailEvent.ok)
        => query.val = [command |-> "START_REPLICATION",
                        slot |-> config.slot,
                        lsn |-> TailEvent.val.wal_end,
                        proto_version |-> "1",
                        publication_names |-> config.publication]

\* The tail is a Commit event, whose commit_lsn and end_lsn differ, and the
\* session streams.
C1_Witness ==
    /\ phase = "Streaming"
    /\ last_record.tag = "Some"
    /\ TailEvent.ok
    /\ TailEvent.val.message.tag = "Commit"
    /\ TailEvent.val.message.commit_lsn # TailEvent.val.wal_end
    /\ query.val.lsn = TailEvent.val.wal_end

C3_AckIsCommitted ==
    \A i \in DOMAIN status_updates :
        \/ status_updates[i].flush_lsn = 0
        \/ \E p \in Commits :
              status_updates[i].flush_lsn \in {CommitLsn(p), EndLsn(p)}

\* C3, amended: the watermark is the LSN the session started from until a
\* Commit is handled and emitted, then that Commit's commit_lsn; no other
\* message changes it; every status update carries it in its three LSN fields.
C3_AckIsWatermark ==
    /\ \A i \in DOMAIN history :
          history[i].last_lsn =
              IF Kind(i) = "Commit" /\ history[i].err = "none"
              THEN CommitLsn(history[i].pos) ELSE Before(i)
    /\ \A i \in DOMAIN status_updates :
          LET w == IF history = <<>> THEN query.val.lsn
                   ELSE history[Len(history)].last_lsn
          IN /\ status_updates[i].write_lsn = w
             /\ status_updates[i].flush_lsn = w
             /\ status_updates[i].apply_lsn = w

\* An update is sent after a Commit and a later message were handled: it
\* carries the Commit's commit_lsn, not the LSN seen last.
C3_Witness ==
    /\ status_updates # <<>>
    /\ \E i \in DOMAIN history :
          /\ Kind(i) = "Commit"
          /\ history[i].err = "none"
          /\ status_updates[1].flush_lsn = CommitLsn(history[i].pos)
          /\ status_updates[1].flush_lsn # WriteLocation(history[i].pos)

Converted(i) == history[i].err # "ConversionError"
WellFormedData(i) ==
    wal[history[i].pos].kind \in DataKinds /\ ~wal[history[i].pos].malformed

\* C5, as claimed: a data message for relation r converts iff a Relation
\* message for r was handled earlier in the session.
C5_ConvertsIffRelationSeen ==
    \A i \in DOMAIN history :
        WellFormedData(i) =>
            (Converted(i) <=>
                \E j \in 1..(i - 1) :
                    /\ Kind(j) = "Relation"
                    /\ wal[history[j].pos].rel_id = wal[history[i].pos].rel_id)

\* C5, amended: it converts iff a Relation message for r was handled earlier
\* in the session and its event was emitted; an undecodable one never does.
C5_ConvertsIffRelationRegistered ==
    \A i \in DOMAIN history :
        /\ WellFormedData(i) =>
              (Converted(i) <=>
                  \E j \in 1..(i - 1) :
                      /\ Kind(j) = "Relation"
                      /\ history[j].err = "none"
                      /\ wal[history[j].pos].rel_id = wal[history[i].pos].rel_id)
        /\ wal[history[i].pos].malformed => ~Converted(i)

\* A data message converts after its Relation message, with that message's
\* columns.
C5_Witness ==
    \E i \in DOMAIN history :
        /\ WellFormedData(i)
        /\ history[i].err = "none"
        /\ \E j \in 1..(i - 1) :
              /\ Kind(j) = "Relation"
              /\ history[i].event.val.message.columns = <<history[j].pos>>

\* The records the handled frames of this session should have produced with
\* no transform: one per converted event, in order.
RECURSIVE Expected(_)
Expected(h) ==
    IF h = <<>> THEN <<>>
    ELSE (IF h[1].err # "ConversionError"
          THEN <<null_key(to_string(h[1].event.val))>> ELSE <<>>)
         \o Expected(Tail(h))

NoSendError == \A i \in DOMAIN history : history[i].err # "SendError"

\* C6: in a session whose only failures are conversion failures, nothing is
\* written for a message that fails conversion, every other message is
\* written once, in the order received, and a Commit moves the watermark to
\* its commit_lsn.
C6_SkipsOnlyTheBadMessage ==
    (smartstream = None /\ query.tag = "Some" /\ NoSendError)
        => /\ SubSeq(topic, topic_base + 1, Len(topic)) = Expected(history)
           /\ \A i \in DOMAIN history :
                 /\ Converted(i) =>
                       history[i].event.val.wal_end = WriteLocation(history[i].pos)
                 /\ (Converted(i) /\ Kind(i) = "Commit") =>
                       history[i].last_lsn = CommitLsn(history[i].pos)

\* A message that fails conversion between two that do not, the second a
\* Commit that moved the watermark.
C6_Witness ==
    /\ smartstream = None
    /\ NoSendError
    /\ \E i \in DOMAIN history :
          /\ i > 1
          /\ i < Len(history)
          /\ ~Converted(i)
          /\ Converted(i - 1)
          /\ Kind(i + 1) = "Commit"
          /\ history[i + 1].last_lsn = CommitLsn(history[i + 1].pos)
          /\ Len(topic) = topic_base + Len(history) - 1

\* A frame was handled in this step and its handling failed.
HandlerFailed ==
    \/ /\ Len(history') = Len(history) + 1
       /\ history'[Len(history')].err # "none"
    \/ /\ frame'.kind = "PrimaryKeepAlive"
       /\ faults' = faults + 1

\* C7: a failure of process_event leaves process_stream in its loop, with
\* nothing returned, and the failed frame behind it.
C7_FailureKeepsLooping ==
    [][HandlerFailed =>
          /\ phase' = "Streaming"
          /\ result' = "none"
          /\ sid' = sid
          /\ (frame'.kind = "XLogData" => cursor' = frame'.pos)]_vars

\* A frame is handled after one whose handling failed.
C7_Witness ==
    /\ phase = "Streaming"
    /\ \E i \in DOMAIN history :
          /\ i < Len(history)
          /\ history[i].err # "none"
          /\ history[i + 1].err = "none"

\* C8: a failed receive ends process_stream with an error and no frame is
\* handled for it; a terminated session stays terminated, and only a new
\* process, with its own tail read, streams again.
C8_TerminatedIsFinal ==
    [][/\ (phase = "Streaming" /\ result' = "err")
            => (phase' = "Terminated" /\ history' = history /\ topic' = topic
                /\ cursor' = cursor)
       /\ (phase = "Terminated" /\ sid' = sid)
            => (phase' = "Terminated" /\ result' = result
                /\ history' = history /\ topic' = topic /\ cursor' = cursor)
       /\ (sid' # sid)
            => (/\ sid' = sid + 1
                /\ phase' \in {"Ready", "Failed"}
                /\ history' = <<>>
                /\ query' = None
                /\ last_record' \in {None} \cup {Some(topic[i]) : i \in {Len(topic)} \ {0}})]_vars

\* A session ended with an error while a frame was waiting to be received.
C8_Witness ==
    /\ phase = "Terminated"
    /\ result = "err"
    /\ query.tag = "Some"
    /\ NextPos # 0

CeilDiv(n, d) == (n + d - 1) \div d

\* C9: a transform that yields N outputs for an event makes the emitter issue
\* ceil(N / 100) batch writes, all of 100 records but the last, which has 1
\* to 100, in order, and together they are the transform's outputs in order,
\* each with a null key.
C9_BatchLaw ==
    (/\ smartstream.tag = "Some"
     /\ frame.kind = "XLogData"
     /\ history[Len(history)].err = "none")
        => LET n == smartstream.val.n
               out == process(smartstream.val,
                              to_string(history[Len(history)].event.val))
           IN /\ Len(emitted) = CeilDiv(n, 100)
              /\ \A i \in DOMAIN emitted :
                    /\ emitted[i].op = "send_all"
                    /\ i < Len(emitted) => Len(emitted[i].records) = 100
                    /\ Len(emitted[i].records) \in 1..100
              /\ flatten(emitted) = [k \in 1..n |-> [key |-> "NULL", value |-> out[k]]]
              /\ Len(topic) >= n
              /\ SubSeq(topic, Len(topic) - n + 1, Len(topic)) = flatten(emitted)

\* An event whose 201 outputs went out as three batches.
C9_Witness ==
    /\ smartstream.tag = "Some"
    /\ frame.kind = "XLogData"
    /\ history[Len(history)].err = "none"
    /\ smartstream.val.n = 201
    /\ Len(emitted) = 3
    /\ Len(emitted[3].records) = 1

\* C10: with no transform, a converted event is sent as one single-record
\* write with a null key and the event's JSON as its value, and nothing else
\* is written for it.
C10_SingleRecord ==
    (/\ smartstream = None
     /\ frame.kind = "XLogData"
     /\ history[Len(history)].err = "none")
        => LET json == to_string(history[Len(history)].event.val)
           IN /\ emitted = <<[op |-> "send",
                              records |-> <<[key |-> "NULL", value |-> json]>>]>>
              /\ topic[Len(topic)] = [key |-> "NULL", value |-> json]
              /\ json["wal_end"] = WriteLocation(frame.pos)
              /\ Len(topic) = topic_base
                     + Cardinality({i \in DOMAIN history : history[i].err = "none"})

\* Two events were sent, one record each.
C10_Witness ==
    /\ smartstream = None
    /\ frame.kind = "XLogData"
    /\ Len(history) = 2
    /\ \A i \in DOMAIN history : history[i].err = "none"
    /\ Len(topic) = topic_base + 2
    /\ emitted[1].op = "send"

AllHandles == {"admin", "consumer", "tail_read", "producer", "pg_client"}

\* C11: when the tail read of new() returns no record (the log is empty or
\* the read timed out), new() returns a connector with no resume point, and
\* the command process_stream sends is START_REPLICATION at LSN 0.
C11_NoRecordIsNoError ==
    (sid > 0 /\ config.topic \in topics /\ last_record = None)
        => /\ phase # "Failed"
           /\ error \notin {"TopicNotFound", "ResumeDecodeError", "NoRecord"}
           /\ opened = AllHandles
           /\ lsn = None
           /\ query.tag = "Some" =>
                 query.val = start_replication(config.slot, config.publication, 0)

\* The log holds records, the tail read timed out, and the session streams
\* from LSN 0.
C11_Witness ==
    /\ phase = "Streaming"
    /\ topic # <<>>
    /\ topic_base = Len(topic)
    /\ last_record = None
    /\ query.val.lsn = 0

\* C12: when the tail record does not decode as an event, new() returns an
\* error: no resume point, no producer, no replication connection and no
\* START_REPLICATION command.
C12_UndecodableTailIsFatal ==
    (sid > 0 /\ last_record.tag = "Some" /\ ~TailEvent.ok)
        => /\ phase = "Failed"
           /\ result = "err"
           /\ error = "ResumeDecodeError"
           /\ lsn = None
           /\ opened = {"admin", "consumer", "tail_read"}
           /\ query = None

\* A second connector found a tail record written by the transform of the
\* first one, and failed.
C12_Witness ==
    /\ sid = 2
    /\ phase = "Failed"
    /\ last_record.tag = "Some"
    /\ ~TailEvent.ok
    /\ error = "ResumeDecodeError"

\* C13: when the configured topic does not exist, new() fails with
\* TopicNotFound having created the admin client only: no tail read, no
\* producer, no replication connection.
C13_TopicNotFound ==
    (sid > 0 /\ config.topic \notin topics)
        => /\ phase = "Failed"
           /\ result = "err"
           /\ error = "TopicNotFound"
           /\ opened = {"admin"}
           /\ last_record = None
           /\ lsn = None
           /\ query = None
           /\ topic = <<>>

\* A connector was started twice without its topic.
C13_Witness ==
    /\ sid = 2
    /\ config.topic \notin topics
    /\ phase = "Failed"
    /\ error = "TopicNotFound"

\* C14: a status update is sent for a frame exactly when the frame is a
\* keepalive that asks for a reply: one update, its three LSN fields the
\* watermark, its reply flag 0; none for a keepalive that does not ask, none
\* for an XLogData frame.
C14_UpdateIffReplyRequested ==
    /\ (frame.kind = "PrimaryKeepAlive" /\ frame.reply = 1)
          => status_updates =
                <<[write_lsn |-> last_lsn, flush_lsn |-> last_lsn,
                   apply_lsn |-> last_lsn, ts |-> status_updates[1].ts,
                   reply |-> 0]>>
    /\ ~(frame.kind = "PrimaryKeepAlive" /\ frame.reply = 1)
          => /\ status_updates = <<>>
             /\ \A i \in DOMAIN performed :
                   performed[i] # "standby_status_update"

\* A keepalive that asked for a reply was answered with the commit_lsn of
\* the Commit handled before it.
C14_Witness ==
    /\ frame.kind = "PrimaryKeepAlive"
    /\ frame.reply = 1
    /\ Len(status_updates) = 1
    /\ history # <<>>
    /\ Kind(Len(history)) = "Commit"
    /\ status_updates[1].apply_lsn = CommitLsn(history[Len(history)].pos)

\* C15: the timestamp of a status update sent at Unix time T (whole seconds,
\* T >= 946684800) is (T - 946684800) * 1000000.
C15_TimestampSince2000 ==
    status_updates # <<>> =>
        /\ now >= 946684800
        /\ status_updates[1].ts = (now - 946684800) * 1000000

\* An update sent one minute after 2000-01-01T00:00:00Z.
C15_Witness ==
    /\ status_updates # <<>>
    /\ now = 946684860
    /\ status_updates[1].ts = 60000000

\* Whether the Relation message handled last is the one in the cache.
Registered(h) ==
    /\ wal[h.pos].rel_id \in DOMAIN relations
    /\ relations[wal[h.pos].rel_id] = XLogData(h.pos).data.columns

\* C16: process_event reaches match event.message, where a Relation is
\* registered and a Commit moves the watermark, only after every write of the
\* event has returned; while it has not, the cache and the watermark are those
\* from before the event.
C16_EmitBeforeUpdate ==
    (frame.kind = "XLogData" /\ history # <<>>)
        => LET n == Len(performed)
               h == history[Len(history)]
               updated == n > 0 /\ performed[n] = "match"
           IN /\ \A i \in 1..n : performed[i] = "match" =>
                    /\ i = n
                    /\ h.err = "none"
                    /\ emitted = writes_for(smartstream, to_string(h.event.val))
                    /\ \A j \in 1..(i - 1) :
                          performed[j] \in {"process", "send", "send_all"}
              /\ updated =>
                    /\ wal[h.pos].kind = "Relation" => Registered(h)
                    /\ wal[h.pos].kind = "Commit" => h.last_lsn = CommitLsn(h.pos)
              /\ ~updated =>
                    /\ wal[h.pos].kind = "Relation" => ~Registered(h)
                    /\ h.last_lsn = Before(Len(history))

\* A Commit whose two batches were sent before the watermark moved.
C16_Witness ==
    /\ frame.kind = "XLogData"
    /\ history # <<>>
    /\ wal[frame.pos].kind = "Commit"
    /\ performed = <<"process", "send_all", "send_all", "match">>
    /\ last_lsn = CommitLsn(frame.pos)

\* C17: within a session the relation cache changes only when a Relation
\* message is handled (and emitted): the entry of its relation id becomes
\* the message's column list, every other entry stays; no other frame, and no
\* failed lookup, changes the cache, and no entry is removed.
C17_CacheChangesOnlyOnRelation ==
    [][sid' = sid =>
          IF /\ Len(history') = Len(history) + 1
             /\ wal[frame'.pos].kind = "Relation"
             /\ history'[Len(history')].err = "none"
          THEN LET r == wal[frame'.pos].rel_id
               IN /\ DOMAIN relations' = DOMAIN relations \cup {r}
                  /\ relations'[r] = XLogData(frame'.pos).data.columns
                  /\ \A q \in DOMAIN relations \ {r} :
                        relations'[q] = relations[q]
          ELSE relations' = relations]_vars

\* A relation was registered twice: the cache holds the second column list.
C17_Witness ==
    \E i, j \in DOMAIN history :
        /\ i < j
        /\ Kind(i) = "Relation" /\ history[i].err = "none"
        /\ Kind(j) = "Relation" /\ history[j].err = "none"
        /\ wal[history[i].pos].rel_id = wal[history[j].pos].rel_id
        /\ relations[wal[history[j].pos].rel_id] = <<history[j].pos>>

\* The number of records this session wrote for its first i handled frames.
WrittenUpTo(i) ==
    Cardinality({j \in 1..i : history[j].err = "none"})

C19_StateUnchangedOnError ==
    [][(/\ Len(history') = Len(history) + 1
        /\ history'[Len(history')].err # "none")
          => (relations' = relations /\ last_lsn' = last_lsn)]_vars

\* A Commit whose second batch failed: one batch is written, the watermark
\* is the one before the Commit.
C19_Witness ==
    /\ frame.kind = "XLogData"
    /\ history # <<>>
    /\ wal[frame.pos].kind = "Commit"
    /\ error = "SendError"
    /\ Len(emitted) = 1
    /\ last_lsn = Before(Len(history))
    /\ last_lsn # CommitLsn(frame.pos)

\* The records the handled frames of this session left in the topic with a
\* transform: for each frame the batches that were sent, in order.
RECURSIVE SentBatches(_)
SentBatches(h) ==
    IF h = <<>> THEN <<>>
    ELSE (IF h[1].sent > 0
          THEN flatten(SubSeq(batches(smartstream.val, to_string(h[1].event.val)),
                              1, h[1].sent))
          ELSE <<>>)
         \o SentBatches(Tail(h))

\* C20: with a transform, when the send of batch k of an event fails, the
\* records of that event in the topic are those of batches 1..k-1, in order;
\* batch k and those after it are not sent, then or when later frames are
\* handled.
C20_PrefixOnSendFailure ==
    (smartstream.tag = "Some" /\ query.tag = "Some")
        => /\ SubSeq(topic, topic_base + 1, Len(topic)) = SentBatches(history)
           /\ \A i \in DOMAIN history :
                 history[i].err = "SendError" =>
                    history[i].sent < Len(batches(smartstream.val,
                                                  to_string(history[i].event.val)))
           /\ (frame.kind = "XLogData" /\ error = "SendError") =>
                 LET h == history[Len(history)]
                     bs == batches(smartstream.val, to_string(h.event.val))
                 IN /\ emitted = SubSeq(bs, 1, h.sent)
                    /\ h.sent + 1 \in DOMAIN bs

\* The second batch of the first event failed; the next event was handled
\* and the topic holds the first batch of the first and all of the second.
C20_Witness ==
    /\ smartstream.tag = "Some"
    /\ Len(history) = 2
    /\ history[1].err = "SendError"
    /\ history[1].sent = 1
    /\ history[2].err = "none"
    /\ Len(topic) = topic_base + BATCH_SIZE + (BATCH_SIZE + 1)

====
